---------------------------- MODULE Spec2Model ----------------------------
(***************************************************************************)
(* diesel_cockroach: the AS OF SYSTEM TIME wrapper (as_of_system_time.rs)  *)
(* and the UPSERT statement (upsert.rs), as a state machine over one query *)
(* node and the sink a walk writes to.                                     *)
(*                                                                         *)
(* The sink is what an AstPass<Pg> writes to during a walk: the SQL text   *)
(* (a sequence of tokens, one per push), the bound values, the query       *)
(* builder's placeholder counter and the cache flag.  A walk_ast body is   *)
(* modelled one statement per action, so that what is in the sink between  *)
(* two statements of the body is a state of the model.                     *)
(*                                                                         *)
(* diesel runs walk_ast once per purpose (text, binds, cache flag); the    *)
(* sink here holds all three, as one walk that does every push.  The       *)
(* children that are diesel's own (the select, the from clause, the record *)
(* set, the generated functions) are lists of pushes, taken from the texts *)
(* the crate's tests expect.                                               *)
(***************************************************************************)
EXTENDS Integers, Sequences, FiniteSets

VARIABLES
    stmt,     \* the query node built so far
    out,      \* the sink of the walk in progress (or of the last walk)
    pc,       \* the statement of walk_ast that runs next
    result,   \* the QueryResult<()> the walk returned: "none", "Ok" or an error
    walked,   \* the children whose walk_ast this walk has called, in call order
    walks,    \* how many walks of stmt have returned
    first     \* what the first walk of stmt left: its text, binds, flag and result

vars == <<stmt, out, pc, result, walked, walks, first>>

----------------------------------------------------------------------------
(* Bounds of the model. *)

MaxRecords == 2     \* records in a record set: 0..MaxRecords
NumBooks == 2       \* distinct records to draw a record set from
MaxWhere == 1       \* bound values the source select contributes: 0..MaxWhere
MaxFailAt == 4      \* a failing child fails after 0..MaxFailAt of its pushes
MaxWalks == 2       \* sequential walks of one node

----------------------------------------------------------------------------
(* Values, tokens and the sink. *)

Value(ty, v) == [ty |-> ty, v |-> v]

NoValue == Value("", 0)

\* One push into the text: literal SQL, a quoted identifier, or a placeholder.
SqlTok(s) == [t |-> "sql", s |-> s, n |-> 0]

IdTok(s) == [t |-> "id", s |-> s, n |-> 0]

PhTok(n) == [t |-> "ph", s |-> "$", n |-> n]

FreshSink == [sql |-> <<>>, binds |-> <<>>, bind_idx |-> 0, cacheable |-> TRUE]

PushSql(o, s) == [o EXCEPT !.sql = Append(@, SqlTok(s))]

PushIdentifier(o, s) == [o EXCEPT !.sql = Append(@, IdTok(s))]

PushBindParam(o, v) ==
    [o EXCEPT !.bind_idx = @ + 1,
              !.sql = Append(@, PhTok(o.bind_idx + 1)),
              !.binds = Append(@, v)]

UnsafeToCachePrepared(o) == [o EXCEPT !.cacheable = FALSE]

----------------------------------------------------------------------------
(* Child fragments: what a child's walk_ast pushes, as a list of pushes. *)

OpSql(s) == [k |-> "sql", s |-> s, v |-> NoValue]

OpId(s) == [k |-> "id", s |-> s, v |-> NoValue]

OpBind(v) == [k |-> "bind", s |-> "", v |-> v]

ApplyOp(o, op) ==
    CASE op.k = "sql" -> PushSql(o, op.s)
      [] op.k = "id" -> PushIdentifier(o, op.s)
      [] OTHER -> PushBindParam(o, op.v)

RECURSIVE ApplyOps(_, _)
ApplyOps(o, ops) ==
    IF ops = <<>> THEN o
    ELSE ApplyOps(ApplyOp(o, Head(ops)), Tail(ops))

Errors == {"QueryBuilderError", "SerializationError"}

NoFail == [at |-> -1, err |-> "Ok"]

Fails == {NoFail} \cup {[at |-> k, err |-> e] : k \in 0..MaxFailAt, e \in Errors}

\* The pushes a child makes before it returns: all of them, or those before
\* its failure.
Emitted(ops, fail) ==
    IF fail.at < 0 \/ fail.at > Len(ops) THEN ops ELSE SubSeq(ops, 1, fail.at)

\* A child's walk_ast(out.reborrow()): the same sink goes in, the sink as the
\* child left it and the child's result come out.
WalkFragment(o, ops, fail) ==
    [out |-> ApplyOps(o, Emitted(ops, fail)),
     res |-> IF fail.at < 0 THEN "Ok" ELSE fail.err]

----------------------------------------------------------------------------
(* The inputs: tables, a source select, a time value, a record set. *)

\* table! { books (id) { id -> Bytea } } of the AS OF SYSTEM TIME tests.
BooksId == [name |-> "books", columns |-> <<"id">>]

\* table! { books (id) { id, title, page_count } } of the upsert tests.
BooksFull == [name |-> "books", columns |-> <<"id", "title", "page_count">>]

Tables == {BooksId, BooksFull}

\* table.select(id), with `where` filters id = $n, each one bound value.
Sources ==
    {[table |-> tb, where |-> w, fail |-> f] :
        tb \in Tables, w \in 0..MaxWhere, f \in Fails}

RECURSIVE WhereOps(_, _)
WhereOps(tb, w) ==
    IF w = 0 THEN <<>>
    ELSE WhereOps(tb, w - 1) \o
         <<OpSql(IF w = 1 THEN " WHERE " ELSE " AND "),
           OpId(tb.name), OpSql("."), OpId(tb.columns[1]), OpSql(" = "),
           OpBind(Value("Bytea", w))>>

\* The select list, the part of the text that fixes the row shape.
SelectListOps(tb) == <<OpId(tb.name), OpSql("."), OpId(tb.columns[1])>>

SelectOps(src) ==
    <<OpSql("SELECT ")>> \o SelectListOps(src.table) \o
    <<OpSql(" FROM "), OpId(src.table.name)>> \o WhereOps(src.table, src.where)

\* T::from_clause() of a table: its quoted name.
FromClauseOps(tb) == <<OpId(tb.name)>>

TimeFnNames ==
    {"follower_read_timestamp", "with_min_timestamp",
     "with_min_timestamp_nearest_only", "with_max_staleness",
     "with_max_staleness_nearest_only"}

Bools == {Value("Bool", 0), Value("Bool", 1)}

\* The arguments each function is declared with, in declaration order.
TimeFnArgs(fn) ==
    CASE fn = "follower_read_timestamp" -> {<<>>}
      [] fn = "with_min_timestamp" -> {<<Value("Timestamptz", 0)>>}
      [] fn = "with_min_timestamp_nearest_only" ->
            {<<Value("Timestamptz", 0), b>> : b \in Bools}
      [] fn = "with_max_staleness" -> {<<Value("Interval", 0)>>}
      [] OTHER -> {<<Value("Interval", 0), b>> : b \in Bools}

SystemTimes ==
    UNION {{[fn |-> fn, args |-> a, fail |-> f] : a \in TimeFnArgs(fn), f \in Fails} :
              fn \in TimeFnNames}

\* The items, each a list of pushes, separated by ", ".
RECURSIVE CommaList(_)
CommaList(items) ==
    IF items = <<>> THEN <<>>
    ELSE IF Len(items) = 1 THEN items[1]
    ELSE items[1] \o <<OpSql(", ")>> \o CommaList(Tail(items))

ArgOps(args) == CommaList([j \in 1..Len(args) |-> <<OpBind(args[j])>>])

\* Faulty variant: the #[sql_name] attributes left out.
SqlCall_NoAttr(fn) ==
    CASE fn = "follower_read_timestamp" -> "follower_read_timestamp()"
      [] fn = "with_min_timestamp" -> "with_min_timestamp("
      [] fn = "with_min_timestamp_nearest_only" -> "with_min_timestamp_nearest_only("
      [] fn = "with_max_staleness" -> "with_max_staleness("
      [] OTHER -> "with_max_staleness_nearest_only("

\* The text a function opens its call with: no_arg_sql_function! pushes
\* name(), sql_function! pushes name( under the function's own name unless
\* #[sql_name] gives another.
SqlCall(fn) ==
    CASE fn = "follower_read_timestamp" -> "follower_read_timestamp()"
      [] fn = "with_min_timestamp" -> "with_min_timestamp("
      [] fn = "with_min_timestamp_nearest_only" -> "with_min_timestamp("
      [] fn = "with_max_staleness" -> "with_max_staleness("
      [] OTHER -> "with_max_staleness("

\* What the macros generate: name(), or name( args separated by ", " ).
TimeFnOps(st) ==
    IF st.fn = "follower_read_timestamp"
    THEN <<OpSql(SqlCall(st.fn))>>
    ELSE <<OpSql(SqlCall(st.fn))>> \o ArgOps(st.args) \o <<OpSql(")")>>

\* Book number k as a row of table tb: one value per column.
Book(tb, k) == [j \in 1..Len(tb.columns) |-> Value(tb.columns[j], k)]

RECURSIVE SeqsUpTo(_, _)
SeqsUpTo(S, n) ==
    IF n = 0 THEN {<<>>}
    ELSE SeqsUpTo(S, n - 1) \cup
         {Append(s, x) : s \in {q \in SeqsUpTo(S, n - 1) : Len(q) = n - 1}, x \in S}

RecordSets == SeqsUpTo(1..NumBooks, MaxRecords)

ColumnListOps(tb) ==
    CommaList([j \in 1..Len(tb.columns) |-> <<OpId(tb.columns[j])>>])

TupleOps(tb, k) ==
    CommaList([j \in 1..Len(tb.columns) |-> <<OpBind(Book(tb, k)[j])>>])

RECURSIVE MoreRowsOps(_, _)
MoreRowsOps(tb, recs) ==
    IF recs = <<>> THEN <<>>
    ELSE <<OpSql(", (")>> \o TupleOps(tb, Head(recs)) \o <<OpSql(")")>> \o
         MoreRowsOps(tb, Tail(recs))

\* The record set's walk: nothing for no record; else the column list and
\* VALUES with the first row, then ", (row)" per further record.
ValuesOps(tb, recs) ==
    IF recs = <<>> THEN <<>>
    ELSE <<OpSql("(")>> \o ColumnListOps(tb) \o <<OpSql(") VALUES (")>> \o
         TupleOps(tb, Head(recs)) \o <<OpSql(")")>> \o MoreRowsOps(tb, Tail(recs))

----------------------------------------------------------------------------
(* The query nodes and their construction. *)

NoStmt == [kind |-> "none"]

\* A table as the target of an upsert: its from clause is a child that is walked.
Targets == {[table |-> tb, fail |-> f] : tb \in Tables, f \in Fails}

\* A record set as the child records.values() gives: the rows and the walk's fate.
Records == {[rows |-> rs, fail |-> f] : rs \in RecordSets, f \in Fails}

NoOutcome == [sql |-> <<>>, binds |-> <<>>, cacheable |-> TRUE, result |-> "none"]

Outcome(o, res) ==
    [sql |-> o.sql, binds |-> o.binds, cacheable |-> o.cacheable, result |-> res]

Init ==
    /\ stmt = NoStmt
    /\ out = FreshSink
    /\ pc = "idle"
    /\ result = "none"
    /\ walked = <<>>
    /\ walks = 0
    /\ first = NoOutcome

\* source.as_of_system_time(system_time): AsOfSystemTime::new(self, system_time).
as_of_system_time ==
    /\ pc = "idle"
    /\ stmt.kind = "none"
    /\ \E s \in Sources, st \in SystemTimes :
          stmt' = [kind |-> "asof", source |-> s, system_time |-> st]
    /\ UNCHANGED <<out, pc, result, walked, walks, first>>

\* upsert_into(target): IncompleteUpsertStatement::new(target).
upsert_into ==
    /\ pc = "idle"
    /\ stmt.kind = "none"
    /\ \E tg \in Targets : stmt' = [kind |-> "incomplete", target |-> tg]
    /\ UNCHANGED <<out, pc, result, walked, walks, first>>

\* incomplete.values(records): UpsertStatement::new(self.target, records.values()).
values ==
    /\ pc = "idle"
    /\ stmt.kind = "incomplete"
    /\ \E r \in Records :
          stmt' = [kind |-> "upsert", target |-> stmt.target, records |-> r]
    /\ UNCHANGED <<out, pc, result, walked, walks, first>>

\* The caller starts a walk of the node with a sink of the walk's own.
BeginWalk ==
    /\ pc = "idle"
    /\ stmt.kind \in {"asof", "upsert"}
    /\ walks < MaxWalks
    /\ out' = FreshSink
    /\ result' = "none"
    /\ walked' = <<>>
    /\ pc' = IF stmt.kind = "asof" THEN "asof_source" ELSE "upsert_flag"
    /\ UNCHANGED <<stmt, walks, first>>

\* The walk has returned: the caller has the result and what is in the sink.
Return ==
    /\ pc = "done"
    /\ pc' = "idle"
    /\ walks' = walks + 1
    /\ first' = IF walks = 0 THEN Outcome(out, result) ELSE first
    /\ UNCHANGED <<stmt, out, result, walked>>

----------------------------------------------------------------------------
(* walk_ast, one statement per action. *)

\* Faulty variant: the child gets a placeholder counter of its own.
Reborrow_Fresh(o) == [o EXCEPT !.bind_idx = 0]

\* out.reborrow(): the child writes to the very sink of its parent.
Reborrow(o) == o

\* Faulty variant: the child's result is dropped, the walk goes on.
Question_Swallow(r, next) ==
    /\ out' = r.out
    /\ pc' = next
    /\ result' = result

\* Faulty variant: a failure empties the sink.
Question_Rollback(r, next) ==
    /\ out' = IF r.res = "Ok" THEN r.out ELSE FreshSink
    /\ IF r.res = "Ok"
       THEN pc' = next /\ result' = result
       ELSE pc' = "done" /\ result' = r.res

\* child.walk_ast(..)?: go on when the child returned Ok, else return its error
\* at once. The sink keeps what the child wrote either way.
Question(r, next) ==
    /\ out' = r.out
    /\ IF r.res = "Ok"
       THEN pc' = next /\ result' = result
       ELSE pc' = "done" /\ result' = r.res

\* Faulty variant: the keyword without the spaces around it.
AsOfKeyword_NoSpaces == "AS OF SYSTEM TIME"

AsOfKeyword == " AS OF SYSTEM TIME "

UpsertKeyword == "UPSERT INTO "

\* Faulty variant: the source is opened with a parenthesis.
AsOfWalkSource_Subselect ==
    /\ pc = "asof_source"
    /\ walked' = Append(walked, "source")
    /\ Question(WalkFragment(PushSql(Reborrow(out), "("), SelectOps(stmt.source),
                             stmt.source.fail), "asof_keyword")
    /\ UNCHANGED <<stmt, walks, first>>

\* self.source.walk_ast(out.reborrow())?;
AsOfWalkSource ==
    /\ pc = "asof_source"
    /\ walked' = Append(walked, "source")
    /\ Question(WalkFragment(Reborrow(out), SelectOps(stmt.source), stmt.source.fail),
                "asof_keyword")
    /\ UNCHANGED <<stmt, walks, first>>

\* out.push_sql(" AS OF SYSTEM TIME ");
AsOfPushKeyword ==
    /\ pc = "asof_keyword"
    /\ out' = PushSql(out, AsOfKeyword)
    /\ pc' = "asof_time"
    /\ UNCHANGED <<stmt, result, walked, walks, first>>

\* self.system_time.walk_ast(out.reborrow())?;
AsOfWalkSystemTime ==
    /\ pc = "asof_time"
    /\ walked' = Append(walked, "system_time")
    /\ Question(WalkFragment(Reborrow(out), TimeFnOps(stmt.system_time),
                             stmt.system_time.fail), "asof_ok")
    /\ UNCHANGED <<stmt, walks, first>>

\* Ok(())
AsOfOk ==
    /\ pc = "asof_ok"
    /\ result' = "Ok"
    /\ pc' = "done"
    /\ UNCHANGED <<stmt, out, walked, walks, first>>

\* Faulty variant: the flag is left as it is.
UpsertUnsafeToCache_Skip ==
    /\ pc = "upsert_flag"
    /\ pc' = "upsert_keyword"
    /\ UNCHANGED <<stmt, out, result, walked, walks, first>>

\* out.unsafe_to_cache_prepared();
UpsertUnsafeToCache ==
    /\ pc = "upsert_flag"
    /\ out' = UnsafeToCachePrepared(out)
    /\ pc' = "upsert_keyword"
    /\ UNCHANGED <<stmt, result, walked, walks, first>>

\* out.push_sql("UPSERT INTO ");
UpsertPushKeyword ==
    /\ pc = "upsert_keyword"
    /\ out' = PushSql(out, UpsertKeyword)
    /\ pc' = "upsert_from"
    /\ UNCHANGED <<stmt, result, walked, walks, first>>

\* self.target.from_clause().walk_ast(out.reborrow())?;
UpsertWalkFromClause ==
    /\ pc = "upsert_from"
    /\ walked' = Append(walked, "target")
    /\ Question(WalkFragment(Reborrow(out), FromClauseOps(stmt.target.table),
                             stmt.target.fail), "upsert_space")
    /\ UNCHANGED <<stmt, walks, first>>

\* Faulty variant: no space after the table reference.
UpsertPushSpace_Skip ==
    /\ pc = "upsert_space"
    /\ pc' = "upsert_records"
    /\ UNCHANGED <<stmt, out, result, walked, walks, first>>

\* out.push_sql(" ");
UpsertPushSpace ==
    /\ pc = "upsert_space"
    /\ out' = PushSql(out, " ")
    /\ pc' = "upsert_records"
    /\ UNCHANGED <<stmt, result, walked, walks, first>>

\* Faulty variant: only the first record is walked.
UpsertWalkRecords_FirstOnly ==
    /\ pc = "upsert_records"
    /\ walked' = Append(walked, "records")
    /\ Question(WalkFragment(Reborrow(out),
                             ValuesOps(stmt.target.table,
                                       IF stmt.records.rows = <<>> THEN <<>>
                                       ELSE <<Head(stmt.records.rows)>>),
                             stmt.records.fail), "upsert_ok")
    /\ UNCHANGED <<stmt, walks, first>>

\* Faulty variant: the walk takes the records out of the node.
UpsertWalkRecords_Drain ==
    /\ pc = "upsert_records"
    /\ walked' = Append(walked, "records")
    /\ Question(WalkFragment(Reborrow(out),
                             ValuesOps(stmt.target.table, stmt.records.rows),
                             stmt.records.fail), "upsert_ok")
    /\ stmt' = [stmt EXCEPT !.records.rows = <<>>]
    /\ UNCHANGED <<walks, first>>

\* self.records.walk_ast(out.reborrow())?;
UpsertWalkRecords ==
    /\ pc = "upsert_records"
    /\ walked' = Append(walked, "records")
    /\ Question(WalkFragment(Reborrow(out),
                             ValuesOps(stmt.target.table, stmt.records.rows),
                             stmt.records.fail), "upsert_ok")
    /\ UNCHANGED <<stmt, walks, first>>

\* Ok(())
UpsertOk ==
    /\ pc = "upsert_ok"
    /\ result' = "Ok"
    /\ pc' = "done"
    /\ UNCHANGED <<stmt, out, walked, walks, first>>

Next ==
    \/ as_of_system_time
    \/ upsert_into
    \/ values
    \/ BeginWalk
    \/ AsOfWalkSource
    \/ AsOfPushKeyword
    \/ AsOfWalkSystemTime
    \/ AsOfOk
    \/ UpsertUnsafeToCache
    \/ UpsertPushKeyword
    \/ UpsertWalkFromClause
    \/ UpsertPushSpace
    \/ UpsertWalkRecords
    \/ UpsertOk
    \/ Return

Spec == Init /\ [][Next]_vars

----------------------------------------------------------------------------
(* Reading the sink back, for the properties below. *)

Range(s) == {s[i] : i \in DOMAIN s}

IsPh(tok) == tok.t = "ph"

\* The numbers of the placeholders in the text, left to right.
PhNums(sql) ==
    LET ph == SelectSeq(sql, IsPh)
    IN [i \in 1..Len(ph) |-> ph[i].n]

OneTo(n) == [i \in 1..n |-> i]

IsPrefix(p, s) == Len(p) <= Len(s) /\ SubSeq(s, 1, Len(p)) = p

\* Where token tok first stands in the text (0: nowhere).
IndexOf(sql, tok) ==
    IF tok \in Range(sql)
    THEN CHOOSE i \in DOMAIN sql : sql[i] = tok /\ \A j \in 1..(i - 1) : sql[j] # tok
    ELSE 0

\* The text after the AS OF SYSTEM TIME keyword.
AfterKeyword(sql) ==
    SubSeq(sql, IndexOf(sql, SqlTok(" AS OF SYSTEM TIME ")) + 1, Len(sql))

\* The select list of a statement's text: what stands between SELECT and FROM.
SelectList(sql) ==
    SubSeq(sql, IndexOf(sql, SqlTok("SELECT ")) + 1, IndexOf(sql, SqlTok(" FROM ")) - 1)

Succeeded == pc = "done" /\ result = "Ok"

Failed == pc = "done" /\ result # "Ok"

----------------------------------------------------------------------------
(* Placeholders and bound values. *)

\* The bound values a node holds, in the order its SQL text names them.
SourceBinds(src) == [i \in 1..src.where |-> Value("Bytea", i)]

\* C1: after a successful walk into a fresh sink the placeholders of the text
\* are $1, $2, ..., $n from left to right, n being the number of bound values;
\* for AS OF SYSTEM TIME the bound values are the source's k values and then
\* the time function's arguments, and the time function's placeholders are
\* $k+1 onwards.
C1_PlaceholdersMatchBinds ==
    Succeeded =>
        /\ PhNums(out.sql) = OneTo(Len(out.binds))
        /\ stmt.kind = "asof" =>
              LET k == stmt.source.where
                  a == Len(stmt.system_time.args)
              IN /\ out.binds = SourceBinds(stmt.source) \o stmt.system_time.args
                 /\ PhNums(AfterKeyword(out.sql)) = [i \in 1..a |-> k + i]

C1_Witness ==
    /\ Succeeded
    /\ stmt.kind = "asof"
    /\ stmt.source.where >= 1
    /\ Len(stmt.system_time.args) = 2
    /\ PhNums(AfterKeyword(out.sql)) = <<stmt.source.where + 1, stmt.source.where + 2>>

\* C2: a successful walk of AsOfSystemTime leaves in the sink the whole output
\* of the source, then the text " AS OF SYSTEM TIME ", then the whole output of
\* the time value, and nothing else; selecting id from books with
\* follower_read_timestamp gives
\* SELECT "books"."id" FROM "books" AS OF SYSTEM TIME follower_read_timestamp()
\* and no bound value.
C2_SourceKeywordTime ==
    (Succeeded /\ stmt.kind = "asof") =>
        LET s == ApplyOps(FreshSink, SelectOps(stmt.source))
            k == [s EXCEPT !.sql = Append(@, SqlTok(" AS OF SYSTEM TIME "))]
            e == ApplyOps(k, TimeFnOps(stmt.system_time))
        IN /\ out.sql = e.sql
           /\ out.binds = e.binds
           /\ (stmt.source.where = 0 /\ stmt.system_time.fn = "follower_read_timestamp") =>
                 /\ out.sql = <<SqlTok("SELECT "), IdTok("books"), SqlTok("."),
                                IdTok("id"), SqlTok(" FROM "), IdTok("books"),
                                SqlTok(" AS OF SYSTEM TIME "),
                                SqlTok("follower_read_timestamp()")>>
                 /\ out.binds = <<>>

C2_Witness ==
    /\ Succeeded
    /\ stmt.kind = "asof"
    /\ stmt.source.where = 0
    /\ stmt.system_time.fn = "follower_read_timestamp"
    /\ Len(out.sql) = 8

\* C3: a walk starts with the flag at cacheable; every walk of an
\* UpsertStatement, whatever its record set, has the flag at not cacheable
\* from its first statement on, so before any text is in the sink; and a flag
\* at not cacheable stays there to the end of the walk.
C3_UpsertNotCacheable ==
    [][/\ (pc = "idle" /\ pc' # "idle") => out'.cacheable
       /\ (stmt.kind = "upsert" /\ pc' \notin {"idle", "upsert_flag"}) => ~out'.cacheable
       /\ (stmt.kind = "upsert" /\ out'.sql # <<>>) => ~out'.cacheable
       /\ (~out.cacheable /\ pc # "idle") => ~out'.cacheable]_vars

C3_Witness ==
    /\ pc = "upsert_keyword"
    /\ stmt.records.rows = <<>>
    /\ out.sql = <<>>
    /\ ~out.cacheable

----------------------------------------------------------------------------
(* The upsert statement's text. *)

UpsertOf(rows) == Succeeded /\ stmt.kind = "upsert" /\ stmt.records.rows = rows

\* C4, as stated: walking an UpsertStatement with an empty record set emits
\* only the upsert keyword and the table reference, and no bound value.
C4_EmptyKeywordAndTableOnly ==
    UpsertOf(<<>>) =>
        /\ out.sql = <<SqlTok("UPSERT INTO "), IdTok(stmt.target.table.name)>>
        /\ out.binds = <<>>

\* C4, amended: walking an UpsertStatement with an empty record set emits the
\* upsert keyword, the table reference and the one space the statement puts
\* after it; no column list, no VALUES clause and no bound value.
C4_EmptyKeywordTableSpace ==
    UpsertOf(<<>>) =>
        /\ out.sql = <<SqlTok("UPSERT INTO "), IdTok(stmt.target.table.name), SqlTok(" ")>>
        /\ out.binds = <<>>
        /\ out.bind_idx = 0

C4_Witness ==
    /\ UpsertOf(<<>>)
    /\ Len(out.sql) = 3
    /\ walked = <<"target", "records">>

\* The places in the text where a value tuple opens.
TupleStarts(sql) ==
    {i \in DOMAIN sql : sql[i] \in {SqlTok(") VALUES ("), SqlTok(", (")}}

\* C5: for r >= 1 records over a table of c columns the text is "UPSERT INTO ",
\* the table, a space, one column list naming the c columns, and r value
\* tuples, the first after VALUES and each further one after a comma, each of
\* c placeholders; the r*c bound values are the records' values in row-major
\* order.
C5_TuplesAndRowMajorBinds ==
    (Succeeded /\ stmt.kind = "upsert" /\ stmt.records.rows # <<>>) =>
        LET tb == stmt.target.table
            rows == stmt.records.rows
            c == Len(tb.columns)
            r == Len(rows)
            sql == out.sql
        IN /\ SubSeq(sql, 1, 4) =
                <<SqlTok("UPSERT INTO "), IdTok(tb.name), SqlTok(" "), SqlTok("(")>>
           /\ \A j \in 1..c : sql[3 + 2 * j] = IdTok(tb.columns[j])
           /\ sql[4 + 2 * c] = SqlTok(") VALUES (")
           /\ Cardinality({i \in DOMAIN sql : sql[i] = SqlTok(") VALUES (")}) = 1
           /\ Cardinality({i \in DOMAIN sql : sql[i] = SqlTok(", (")}) = r - 1
           /\ Cardinality(TupleStarts(sql)) = r
           /\ \A i \in TupleStarts(sql) :
                 /\ \A j \in 1..c : IsPh(sql[i + 2 * j - 1])
                 /\ \A j \in 1..(c - 1) : sql[i + 2 * j] = SqlTok(", ")
                 /\ sql[i + 2 * c] = SqlTok(")")
           /\ Len(sql) = 3 + 2 * c + r * (2 * c + 1)
           /\ Len(out.binds) = r * c
           /\ \A i \in 1..r : \A j \in 1..c :
                 out.binds[(i - 1) * c + j] = Value(tb.columns[j], rows[i])

C5_Witness ==
    /\ Succeeded
    /\ stmt.kind = "upsert"
    /\ Len(stmt.records.rows) = 2
    /\ stmt.records.rows[1] # stmt.records.rows[2]
    /\ Len(stmt.target.table.columns) = 3
    /\ Len(out.binds) = 6

----------------------------------------------------------------------------
(* The time functions. *)

\* C6: each time function emits its call and forwards its arguments as bound
\* values in declared order: follower_read_timestamp() binds nothing;
\* with_min_timestamp and with_max_staleness bind one value; the nearest_only
\* variants bind two, the timestamp or interval and then the boolean, and are
\* emitted as with_min_timestamp and with_max_staleness.
C6_TimeFunctionCalls ==
    (Succeeded /\ stmt.kind = "asof") =>
        LET fn == stmt.system_time.fn
            k == stmt.source.where
            call == AfterKeyword(out.sql)
            bound == SubSeq(out.binds, k + 1, Len(out.binds))
            tys == [i \in 1..Len(bound) |-> bound[i].ty]
        IN /\ bound = stmt.system_time.args
           /\ fn = "follower_read_timestamp" =>
                 /\ call = <<SqlTok("follower_read_timestamp()")>>
                 /\ bound = <<>>
           /\ fn = "with_min_timestamp" =>
                 /\ call = <<SqlTok("with_min_timestamp("), PhTok(k + 1), SqlTok(")")>>
                 /\ tys = <<"Timestamptz">>
           /\ fn = "with_max_staleness" =>
                 /\ call = <<SqlTok("with_max_staleness("), PhTok(k + 1), SqlTok(")")>>
                 /\ tys = <<"Interval">>
           /\ fn = "with_min_timestamp_nearest_only" =>
                 /\ call = <<SqlTok("with_min_timestamp("), PhTok(k + 1), SqlTok(", "),
                             PhTok(k + 2), SqlTok(")")>>
                 /\ tys = <<"Timestamptz", "Bool">>
           /\ fn = "with_max_staleness_nearest_only" =>
                 /\ call = <<SqlTok("with_max_staleness("), PhTok(k + 1), SqlTok(", "),
                             PhTok(k + 2), SqlTok(")")>>
                 /\ tys = <<"Interval", "Bool">>

C6_Witness ==
    /\ Succeeded
    /\ stmt.kind = "asof"
    /\ stmt.system_time.fn = "with_max_staleness_nearest_only"
    /\ Len(out.binds) = stmt.source.where + 2
    /\ out.binds[Len(out.binds)] = Value("Bool", 1)

----------------------------------------------------------------------------
(* The wrapper and its source. *)

\* C7: the wrapper leaves its source as it is: what the source emits when
\* walked on its own, text and bound values, is an unchanged prefix of what
\* the wrapper emits, and the select list of the wrapper's statement, which
\* fixes the columns of its rows, is the select list of the source.
C7_SourceIsPrefix ==
    (stmt.kind = "asof" /\ pc # "idle" /\ walked # <<>>) =>
        LET alone == WalkFragment(FreshSink, SelectOps(stmt.source), stmt.source.fail).out
        IN /\ IsPrefix(alone.sql, out.sql)
           /\ IsPrefix(alone.binds, out.binds)
           /\ stmt.source.fail.at < 0 =>
                 /\ SelectList(out.sql) = SelectList(alone.sql)
                 /\ SelectList(out.sql) =
                       <<IdTok(stmt.source.table.name), SqlTok("."),
                         IdTok(stmt.source.table.columns[1])>>

C7_Witness ==
    /\ Succeeded
    /\ stmt.kind = "asof"
    /\ stmt.source.where >= 1
    /\ Len(stmt.system_time.args) >= 1
    /\ Len(out.binds) > stmt.source.where
    /\ Len(SelectList(out.sql)) = 3

----------------------------------------------------------------------------
(* Failure. *)

\* The children of a node in the order walk_ast walks them.
Children(s) ==
    IF s.kind = "asof"
    THEN <<[name |-> "source", fail |-> s.source.fail],
           [name |-> "system_time", fail |-> s.system_time.fail]>>
    ELSE <<[name |-> "target", fail |-> s.target.fail],
           [name |-> "records", fail |-> s.records.fail]>>

\* C8: a walk fails only when a child's walk fails; it then returns that
\* child's error as it is, and stops: the failing child is the last one
\* walked, nothing is pushed after it (with a failing source the keyword is
\* not pushed and the time value not walked; with a failing table reference
\* the record set is not walked). A walk none of whose children fails
\* succeeds, having walked them all.
C8_FailsWithFirstFailingChild ==
    pc = "done" =>
        LET ch == Children(stmt)
            n == Len(walked)
        IN /\ n \in 1..2
           /\ walked = [i \in 1..n |-> ch[i].name]
           /\ \A i \in 1..(n - 1) : ch[i].fail.at < 0
           /\ result = ch[n].fail.err
           /\ result = "Ok" => n = 2
           /\ result # "Ok" =>
                 /\ ch[n].fail.at >= 0
                 /\ (stmt.kind = "asof" /\ n = 1) =>
                       SqlTok(" AS OF SYSTEM TIME ") \notin Range(out.sql)
                 /\ (stmt.kind = "upsert" /\ n = 1) =>
                       /\ SqlTok(" ") \notin Range(out.sql)
                       /\ out.binds = <<>>

C8_Witness ==
    /\ Failed
    /\ stmt.kind = "asof"
    /\ walked = <<"source">>
    /\ stmt.system_time.fail.at < 0
    /\ result = "SerializationError"
    /\ out.sql # <<>>

\* C9, as stated: after a walk that fails the sink holds no text, no bound
\* value and no change of the cache flag.
C9_FailureLeavesSinkEmpty ==
    Failed => (out.sql = <<>> /\ out.binds = <<>> /\ out.cacheable)

\* What the statements of walk_ast push up to the first failure of a child.
PushedUntilFailure(s) ==
    LET ch == Children(s)
        a == IF s.kind = "asof" THEN SelectOps(s.source)
             ELSE FromClauseOps(s.target.table)
        b == IF s.kind = "asof" THEN TimeFnOps(s.system_time)
             ELSE ValuesOps(s.target.table, s.records.rows)
        head == IF s.kind = "asof" THEN <<>> ELSE <<OpSql("UPSERT INTO ")>>
        mid == IF s.kind = "asof" THEN <<OpSql(" AS OF SYSTEM TIME ")>> ELSE <<OpSql(" ")>>
    IN head \o Emitted(a, ch[1].fail) \o
       (IF ch[1].fail.at < 0 THEN mid \o Emitted(b, ch[2].fail) ELSE <<>>)

\* C9, amended: a walk that fails rolls nothing back: when it returns the
\* error the sink holds exactly the text and the bound values pushed before
\* the failure, and the cache flag as the walk set it; discarding them is left
\* to the caller, who has the error.
C9_FailureKeepsWhatWasPushed ==
    Failed =>
        LET e == ApplyOps(FreshSink, PushedUntilFailure(stmt))
        IN /\ out.sql = e.sql
           /\ out.binds = e.binds
           /\ out.bind_idx = Len(out.binds)
           /\ out.cacheable = (stmt.kind # "upsert")

C9_Witness ==
    /\ Failed
    /\ stmt.kind = "upsert"
    /\ walked = <<"target", "records">>
    /\ out.binds # <<>>
    /\ ~out.cacheable

----------------------------------------------------------------------------
(* Walking a node again. *)

\* C10: no statement of a walk changes the node, and every later walk of the
\* node, into a sink of its own, ends with the text, the bound values, the
\* cache flag and the result of the first.
C10_WalkLeavesNodeAndRepeats ==
    [][/\ pc # "idle" => stmt' = stmt
       /\ (pc' = "done" /\ walks' >= 1) => Outcome(out', result') = first']_vars

C10_Witness ==
    /\ Succeeded
    /\ walks = 1
    /\ first.result = "Ok"
    /\ first.binds # <<>>
    /\ Outcome(out, result) = first

=============================================================================
